---- MODULE Spec2Model ----
(***************************************************************************)
(* A model of the quadtree of src/src/index.ts.                            *)
(*                                                                         *)
(* Objects are modelled by reference.  An element is an identifier of Ids  *)
(* whose properties live in elts; a QuadTree node is a reference (a        *)
(* sequence of strings) whose fields live in heap.  A child slot holds a   *)
(* reference or Null, so two trees that share a node are expressible.      *)
(* Nodes that no root reaches any more are dropped from heap, as the       *)
(* garbage collector of the runtime does.                                  *)
(*                                                                         *)
(* Spec runs the public operations on two small trees.  SpecBox is the     *)
(* collision test of the test suite, SpecSplit the quadrant split,         *)
(* SpecFresh insertions into a fresh tree, SpecNew the constructor,        *)
(* SpecEdge queries about the right and bottom edge, SpecLoop the while    *)
(* loops one iteration per step, SpecTwin objects with equal properties,   *)
(* SpecCollide colliding and onCollision with collision functions,         *)
(* SpecBatch pushAll against repeated push, and SpecQuery every query.     *)
(***************************************************************************)
EXTENDS Integers, Sequences, FiniteSets, TLC

VARIABLES heap, clone, elts, stored, last, spent, worklist

vars == <<heap, clone, elts, stored, last, spent, worklist>>

\* ------------------------------------------------------------------ bounds
\* most elements a tree holds at once in the explored runs
MaxSize == 3
\* calls explored after a filter/reject call returned a clone
MaxCloneOps == 1
\* longest batch handed to pushAll
MaxBatch == 2
\* largest width and height of the trees whose split is explored
MaxDim == 5

\* --------------------------------------------------------------- basic data
Null == <<>>

\* key order of the children object literal
Dirs == <<"NW", "NE", "SW", "SE">>

DirSet == {"NW", "NE", "SW", "SE"}

RootRef == <<"root">>

CloneRef == <<"clone">>

Has(o, k) == k \in DOMAIN o

\* item.width != null ? item.width : 1
WidthOf(o) == IF Has(o, "width") THEN o.width ELSE 1

\* item.height != null ? item.height : 1
HeightOf(o) == IF Has(o, "height") THEN o.height ELSE 1

\* Math.floor(n / 2) for the integers of the model
FloorHalf(n) == n \div 2

\* Math.ceil(n / 2)
CeilHalf(n) == (n + 1) \div 2

Max(a, b) == IF a >= b THEN a ELSE b

\* ----------------------------------------------------------------- geometry
\* getCenter that leaves out the origin of the rectangle
getCenter_ignoringOrigin(item) ==
  [x |-> FloorHalf(WidthOf(item)), y |-> FloorHalf(HeightOf(item))]

getCenter(item) ==
  [x |-> FloorHalf(WidthOf(item)) + item.x,
   y |-> FloorHalf(HeightOf(item)) + item.y]


\* boundingBoxCollision with the first comparison strict: rectangles that
\* touch on that side collide
boundingBoxCollision_touching(elt1, elt2) ==
  ~(\/ elt1.x > elt2.x + WidthOf(elt2)
    \/ elt1.x + WidthOf(elt1) <= elt2.x
    \/ elt1.y >= elt2.y + HeightOf(elt2)
    \/ elt1.y + HeightOf(elt1) <= elt2.y)

boundingBoxCollision(elt1, elt2) ==
  ~(\/ elt1.x >= elt2.x + WidthOf(elt2)
    \/ elt1.x + WidthOf(elt1) <= elt2.x
    \/ elt1.y >= elt2.y + HeightOf(elt2)
    \/ elt1.y + HeightOf(elt1) <= elt2.y)


\* calculateDirection with the origin on the center line sent west
calculateDirection_westOnCenter(element, tree) ==
  LET quadCenter == getCenter(tree) IN
  IF element.x <= quadCenter.x
  THEN (IF element.y < quadCenter.y THEN "NW" ELSE "SW")
  ELSE (IF element.y < quadCenter.y THEN "NE" ELSE "SE")

\* calculateDirection with the origin on the center line sent north
calculateDirection_northOnCenter(element, tree) ==
  LET quadCenter == getCenter(tree) IN
  IF element.x < quadCenter.x
  THEN (IF element.y <= quadCenter.y THEN "NW" ELSE "SW")
  ELSE (IF element.y <= quadCenter.y THEN "NE" ELSE "SE")

calculateDirection(element, tree) ==
  LET quadCenter == getCenter(tree) IN
  IF element.x < quadCenter.x
  THEN (IF element.y < quadCenter.y THEN "NW" ELSE "SW")
  ELSE (IF element.y < quadCenter.y THEN "NE" ELSE "SE")

splitTree_floorRight(tree) ==
  LET leftWidth == Max(FloorHalf(tree.width), 1)
      rightWidth == FloorHalf(tree.width)
      topHeight == Max(FloorHalf(tree.height), 1)
      bottomHeight == CeilHalf(tree.height)
  IN [NW |-> [x |-> tree.x, y |-> tree.y,
              width |-> leftWidth, height |-> topHeight],
      NE |-> [x |-> tree.x + leftWidth, y |-> tree.y,
              width |-> rightWidth, height |-> topHeight],
      SW |-> [x |-> tree.x, y |-> tree.y + topHeight,
              width |-> leftWidth, height |-> bottomHeight],
      SE |-> [x |-> tree.x + leftWidth, y |-> tree.y + topHeight,
              width |-> rightWidth, height |-> bottomHeight]]

splitTree(tree) ==
  LET leftWidth == Max(FloorHalf(tree.width), 1)
      rightWidth == CeilHalf(tree.width)
      topHeight == Max(FloorHalf(tree.height), 1)
      bottomHeight == CeilHalf(tree.height)
  IN [NW |-> [x |-> tree.x, y |-> tree.y,
              width |-> leftWidth, height |-> topHeight],
      NE |-> [x |-> tree.x + leftWidth, y |-> tree.y,
              width |-> rightWidth, height |-> topHeight],
      SW |-> [x |-> tree.x, y |-> tree.y + topHeight,
              width |-> leftWidth, height |-> bottomHeight],
      SE |-> [x |-> tree.x + leftWidth, y |-> tree.y + topHeight,
              width |-> rightWidth, height |-> bottomHeight]]

fitting(element, tree) ==
  SelectSeq(Dirs, LAMBDA direction :
                    boundingBoxCollision(element, splitTree(tree)[direction]))

\* "ok", or the error validateElement throws
validateElement(element) ==
  IF element.typeof # "object" THEN "Element must be an Object."
  ELSE IF ~Has(element, "x") \/ ~Has(element, "y")
       THEN "Coordinates properties are missing."
  ELSE IF \/ (IF Has(element, "width") THEN element.width ELSE 0) < 0
          \/ (IF Has(element, "height") THEN element.height ELSE 0) < 0
       THEN "Width and height must be positive integers."
  ELSE "ok"

\* -------------------------------------------------------------------- nodes
\* the fields a successful constructor call leaves behind
QuadTree(opts) ==
  [x |-> opts.x, y |-> opts.y, width |-> opts.width, height |-> opts.height,
   maxElements |-> opts.maxElements,
   contents |-> <<>>, oversized |-> <<>>, size |-> 0,
   children |-> [d \in DirSet |-> Null]]

\* An option of the constructor is a sequence: empty when the caller left
\* the option out, else holding its value.  The value of x and of y is a
\* number whole + 1/2 (half) or whole.
Given(option) == option # <<>>

Num(n) == [whole |-> n, half |-> FALSE]

\* Number.isInteger
isInteger(v) == ~v.half

\* lines 43-66: the tree new QuadTree(options) returns, or the error thrown
construct(options) ==
  IF ~Given(options.width) \/ ~Given(options.height)
  THEN [error |-> "Missing quadtree dimensions.", tree |-> Null]
  ELSE LET width == options.width[1]
           height == options.height[1]
           x == IF Given(options.x) /\ options.x[1] # Num(0)
                THEN options.x[1] ELSE Num(0)
           y == IF Given(options.y) /\ options.y[1] # Num(0)
                THEN options.y[1] ELSE Num(0)
           maxElements == IF Given(options.maxElements) /\ options.maxElements[1] # 0
                          THEN options.maxElements[1] ELSE 1
       IN IF width < 1 \/ height < 1
          THEN [error |-> "Dimensions must be positive integers.", tree |-> Null]
          ELSE IF ~isInteger(x) \/ ~isInteger(y)
          THEN [error |-> "Coordinates must be integers", tree |-> Null]
          ELSE IF maxElements < 1
          THEN [error |-> "The maximum number of elements before a split must be a positive integer.",
                tree |-> Null]
          ELSE [error |-> "none",
                tree |-> QuadTree([x |-> x.whole, y |-> y.whole, width |-> width,
                                   height |-> height, maxElements |-> maxElements])]

\* children[direction].create(), with `that` the parent node
create(that, direction) ==
  LET lw == Max(FloorHalf(that.width), 1)
      th == Max(FloorHalf(that.height), 1)
  IN QuadTree(
       [x |-> IF direction \in {"NE", "SE"} THEN that.x + lw ELSE that.x,
        y |-> IF direction \in {"SW", "SE"} THEN that.y + th ELSE that.y,
        width |-> IF direction \in {"NE", "SE"}
                  THEN CeilHalf(that.width) ELSE lw,
        height |-> IF direction \in {"SW", "SE"}
                   THEN CeilHalf(that.height) ELSE th,
        maxElements |-> that.maxElements])

\* children[direction].get(): the heap after the slot is materialised
get(h, t, direction) ==
  IF h[t].children[direction] # Null THEN h
  ELSE LET c == Append(t, direction) IN
       (c :> create(h[t], direction))
         @@ [h EXCEPT ![t].children[direction] = c]

\* nodes a root reaches
RECURSIVE Reach(_, _)
Reach(h, r) ==
  IF r = Null \/ r \notin DOMAIN h THEN {}
  ELSE {r} \cup UNION {Reach(h, h[r].children[d]) : d \in DirSet}

\* the heap once unreachable nodes are collected
Collect(h, roots) ==
  LET live == UNION {Reach(h, r) : r \in roots} IN
  [r \in live |-> h[r]]

\* ------------------------------------------------------------------ pushAll
\* fifoCandidates = { NW: null, NE: null, SW: null, SE: null }
NoCandidates == [d \in DirSet |-> [tree |-> Null, elements |-> <<>>]]

\* lines 188-194 and 198-204: make the candidate of a direction if it is
\* still null (materialising the child), then append the element to it
addCandidate(st, t, direction, element) ==
  LET fresh == st.cand[direction].tree = Null
      h1 == IF fresh THEN get(st.h, t, direction) ELSE st.h
      c1 == IF fresh
            THEN [st.cand EXCEPT ![direction] =
                    [tree |-> h1[t].children[direction], elements |-> <<>>]]
            ELSE st.cand
  IN [h |-> h1,
      cand |-> [c1 EXCEPT ![direction].elements = Append(@, element)]]


\* flushContents that redistributes nothing: the contents are dropped
flushContents_dropping(st, t, cs, E) == st

\* lines 196-205: every content goes to the candidate of its quadrant
RECURSIVE flushContents(_, _, _, _)
flushContents(st, t, cs, E) ==
  IF cs = <<>> THEN st
  ELSE LET contentDir == fitting(E[Head(cs)], st.h[t])[1] IN
       flushContents(addCandidate(st, t, contentDir, Head(cs)), t, Tail(cs), E)


\* pushElement that lets one element too many into contents
pushElement_offByOne(st, t, element, E) ==
  LET h1 == [st.h EXCEPT ![t].size = @ + 1]
      tree == h1[t]
      fits == fitting(E[element], tree)
  IN IF Len(fits) # 1 \/ tree.width = 1 \/ tree.height = 1
     THEN [h |-> [h1 EXCEPT ![t].oversized = Append(@, element)],
           cand |-> st.cand]
     ELSE IF tree.size - Len(tree.oversized) <= tree.maxElements + 1
     THEN [h |-> [h1 EXCEPT ![t].contents = Append(@, element)],
           cand |-> st.cand]
     ELSE LET s1 == addCandidate([h |-> h1, cand |-> st.cand],
                                 t, fits[1], element)
              s2 == flushContents(s1, t, tree.contents, E)
          IN [h |-> [s2.h EXCEPT ![t].contents = <<>>], cand |-> s2.cand]

\* pushElement that takes an element into contents whenever the contents
\* themselves are under maxElements, whatever the children hold
pushElement_countsContents(st, t, element, E) ==
  LET h1 == [st.h EXCEPT ![t].size = @ + 1]
      tree == h1[t]
      fits == fitting(E[element], tree)
  IN IF Len(fits) # 1 \/ tree.width = 1 \/ tree.height = 1
     THEN [h |-> [h1 EXCEPT ![t].oversized = Append(@, element)],
           cand |-> st.cand]
     ELSE IF Len(tree.contents) < tree.maxElements
     THEN [h |-> [h1 EXCEPT ![t].contents = Append(@, element)],
           cand |-> st.cand]
     ELSE LET s1 == addCandidate([h |-> h1, cand |-> st.cand],
                                 t, fits[1], element)
              s2 == flushContents(s1, t, tree.contents, E)
          IN [h |-> [s2.h EXCEPT ![t].contents = <<>>], cand |-> s2.cand]

\* pushElement that splits nodes of width or height 1 as well
pushElement_splittingUnitNodes(st, t, element, E) ==
  LET h1 == [st.h EXCEPT ![t].size = @ + 1]
      tree == h1[t]
      fits == fitting(E[element], tree)
  IN IF Len(fits) # 1
     THEN [h |-> [h1 EXCEPT ![t].oversized = Append(@, element)],
           cand |-> st.cand]
     ELSE IF tree.size - Len(tree.oversized) <= tree.maxElements
     THEN [h |-> [h1 EXCEPT ![t].contents = Append(@, element)],
           cand |-> st.cand]
     ELSE LET s1 == addCandidate([h |-> h1, cand |-> st.cand],
                                 t, fits[1], element)
              s2 == flushContents(s1, t, tree.contents, E)
          IN [h |-> [s2.h EXCEPT ![t].contents = <<>>], cand |-> s2.cand]

\* pushElement that keeps the elements of a node of width or height 1 in
\* contents instead of oversized
pushElement_unitIntoContents(st, t, element, E) ==
  LET h1 == [st.h EXCEPT ![t].size = @ + 1]
      tree == h1[t]
      fits == fitting(E[element], tree)
  IN IF Len(fits) # 1
     THEN [h |-> [h1 EXCEPT ![t].oversized = Append(@, element)],
           cand |-> st.cand]
     ELSE IF \/ tree.size - Len(tree.oversized) <= tree.maxElements
             \/ tree.width = 1 \/ tree.height = 1
     THEN [h |-> [h1 EXCEPT ![t].contents = Append(@, element)],
           cand |-> st.cand]
     ELSE LET s1 == addCandidate([h |-> h1, cand |-> st.cand],
                                 t, fits[1], element)
              s2 == flushContents(s1, t, tree.contents, E)
          IN [h |-> [s2.h EXCEPT ![t].contents = <<>>], cand |-> s2.cand]

\* pushElement that does not empty contents after handing them to children
pushElement_keepingContents(st, t, element, E) ==
  LET h1 == [st.h EXCEPT ![t].size = @ + 1]
      tree == h1[t]
      fits == fitting(E[element], tree)
  IN IF Len(fits) # 1 \/ tree.width = 1 \/ tree.height = 1
     THEN [h |-> [h1 EXCEPT ![t].oversized = Append(@, element)],
           cand |-> st.cand]
     ELSE IF tree.size - Len(tree.oversized) <= tree.maxElements
     THEN [h |-> [h1 EXCEPT ![t].contents = Append(@, element)],
           cand |-> st.cand]
     ELSE LET s1 == addCandidate([h |-> h1, cand |-> st.cand],
                                 t, fits[1], element)
              s2 == flushContents(s1, t, tree.contents, E)
          IN s2

\* lines 177-208: the body of the loop over the elements of one node's batch
pushElement(st, t, element, E) ==
  LET h1 == [st.h EXCEPT ![t].size = @ + 1]
      tree == h1[t]
      fits == fitting(E[element], tree)
  IN IF Len(fits) # 1 \/ tree.width = 1 \/ tree.height = 1
     THEN [h |-> [h1 EXCEPT ![t].oversized = Append(@, element)],
           cand |-> st.cand]
     ELSE IF tree.size - Len(tree.oversized) <= tree.maxElements
     THEN [h |-> [h1 EXCEPT ![t].contents = Append(@, element)],
           cand |-> st.cand]
     ELSE LET s1 == addCandidate([h |-> h1, cand |-> st.cand],
                                 t, fits[1], element)
              s2 == flushContents(s1, t, tree.contents, E)
          IN [h |-> [s2.h EXCEPT ![t].contents = <<>>], cand |-> s2.cand]

RECURSIVE pushElements(_, _, _, _)

\* pushElements that takes the elements of a batch from its end
pushElements_lastFirst(st, t, elements, E) ==
  IF elements = <<>> THEN st
  ELSE pushElements(pushElement(st, t, elements[Len(elements)], E),
                    t, SubSeq(elements, 1, Len(elements) - 1), E)

pushElements(st, t, elements, E) ==
  IF elements = <<>> THEN st
  ELSE pushElements(pushElement(st, t, Head(elements), E),
                    t, Tail(elements), E)

\* lines 211-216: the non-null candidates, in key order
candidatesOf(cand) ==
  LET ds == SelectSeq(Dirs, LAMBDA d : cand[d].tree # Null) IN
  [i \in 1..Len(ds) |-> cand[ds[i]]]

\* lines 167-217: the worklist loop
RECURSIVE pushLoop(_, _, _)
pushLoop(h, fifo, E) ==
  IF fifo = <<>> THEN h
  ELSE LET top == Head(fifo)
           st == pushElements([h |-> h, cand |-> NoCandidates],
                              top.tree, top.elements, E)
       IN pushLoop(st.h, Tail(fifo) \o candidatesOf(st.cand), E)

\* lines 158-163: the first error of the validation loop, or "ok"
RECURSIVE validateAll(_, _)
validateAll(items, E) ==
  IF items = <<>> THEN "ok"
  ELSE IF validateElement(E[Head(items)]) # "ok"
       THEN validateElement(E[Head(items)])
       ELSE validateAll(Tail(items), E)


\* the items before the first invalid one
RECURSIVE validPrefix(_, _)
validPrefix(items, E) ==
  IF items = <<>> \/ validateElement(E[Head(items)]) # "ok" THEN <<>>
  ELSE <<Head(items)>> \o validPrefix(Tail(items), E)

\* pushAll that validates each item only as it inserts it: the items before
\* the first invalid one are in the tree when the error is thrown
pushAll_validatingLate(h, t, items, E) ==
  [h |-> pushLoop(h, <<[tree |-> t, elements |-> validPrefix(items, E)]>>, E),
   error |-> IF validateAll(items, E) # "ok"
             THEN validateAll(items, E) ELSE "none"]

\* tree.pushAll(items): the heap afterwards and the error thrown, if any
pushAll(h, t, items, E) ==
  IF validateAll(items, E) # "ok"
  THEN [h |-> h, error |-> validateAll(items, E)]
  ELSE [h |-> pushLoop(h, <<[tree |-> t, elements |-> items]>>, E),
        error |-> "none"]

\* tree.push(item)
push(h, t, item, E) == pushAll(h, t, <<item>>, E)

\* ------------------------------------------------------------ remove, clear
\* Array.indexOf, 0 for -1
indexOf(s, v) ==
  IF \E i \in 1..Len(s) : s[i] = v
  THEN CHOOSE i \in 1..Len(s) : s[i] = v /\ \A j \in 1..(i - 1) : s[j] # v
  ELSE 0

\* the first index of an element with the properties of v, 0 for none
indexOfEqual(s, v, E) ==
  IF \E i \in 1..Len(s) : E[s[i]] = E[v]
  THEN CHOOSE i \in 1..Len(s) : E[s[i]] = E[v] /\ \A j \in 1..(i - 1) : E[s[j]] # E[v]
  ELSE 0

\* Array.splice(index, 1)
splice(s, i) == SubSeq(s, 1, i - 1) \o SubSeq(s, i + 1, Len(s))

\* lines 226-259, after the validation of line 224
RECURSIVE removeRec(_, _, _, _)

\* removeRec that keeps a child whose last element was removed
removeRec_keepingEmptyChild(h, t, item, E) ==
  LET tree == h[t]
      io == indexOf(tree.oversized, item)
      ic == indexOf(tree.contents, item)
      dir == calculateDirection(E[item], tree)
      relatedChild == tree.children[dir]
  IN IF io > 0
     THEN [h |-> [h EXCEPT ![t].oversized = splice(@, io),
                           ![t].size = @ - 1],
           removed |-> TRUE]
     ELSE IF ic > 0
     THEN [h |-> [h EXCEPT ![t].contents = splice(@, ic),
                           ![t].size = @ - 1],
           removed |-> TRUE]
     ELSE IF relatedChild # Null
     THEN LET r == removeRec(h, relatedChild, item, E) IN
          IF r.removed
          THEN [h |-> [r.h EXCEPT ![t].size = @ - 1,
                                  ![t].children[dir] = @],
                removed |-> TRUE]
          ELSE [h |-> h, removed |-> FALSE]
     ELSE [h |-> h, removed |-> FALSE]

\* removeRec that leaves the size of the ancestors as it was
removeRec_parentSizeKept(h, t, item, E) ==
  LET tree == h[t]
      io == indexOf(tree.oversized, item)
      ic == indexOf(tree.contents, item)
      dir == calculateDirection(E[item], tree)
      relatedChild == tree.children[dir]
  IN IF io > 0
     THEN [h |-> [h EXCEPT ![t].oversized = splice(@, io),
                           ![t].size = @ - 1],
           removed |-> TRUE]
     ELSE IF ic > 0
     THEN [h |-> [h EXCEPT ![t].contents = splice(@, ic),
                           ![t].size = @ - 1],
           removed |-> TRUE]
     ELSE IF relatedChild # Null
     THEN LET r == removeRec(h, relatedChild, item, E) IN
          IF r.removed
          THEN [h |-> [r.h EXCEPT ![t].size = @,
                                  ![t].children[dir] =
                                     IF r.h[relatedChild].size = 0
                                     THEN Null ELSE @],
                removed |-> TRUE]
          ELSE [h |-> h, removed |-> FALSE]
     ELSE [h |-> h, removed |-> FALSE]

\* removeRec that finds an element by its properties, not by identity
removeRec_byValue(h, t, item, E) ==
  LET tree == h[t]
      io == indexOfEqual(tree.oversized, item, E)
      ic == indexOfEqual(tree.contents, item, E)
      dir == calculateDirection(E[item], tree)
      relatedChild == tree.children[dir]
  IN IF io > 0
     THEN [h |-> [h EXCEPT ![t].oversized = splice(@, io),
                           ![t].size = @ - 1],
           removed |-> TRUE]
     ELSE IF ic > 0
     THEN [h |-> [h EXCEPT ![t].contents = splice(@, ic),
                           ![t].size = @ - 1],
           removed |-> TRUE]
     ELSE IF relatedChild # Null
     THEN LET r == removeRec(h, relatedChild, item, E) IN
          IF r.removed
          THEN [h |-> [r.h EXCEPT ![t].size = @ - 1,
                                  ![t].children[dir] =
                                     IF r.h[relatedChild].size = 0
                                     THEN Null ELSE @],
                removed |-> TRUE]
          ELSE [h |-> h, removed |-> FALSE]
     ELSE [h |-> h, removed |-> FALSE]

removeRec(h, t, item, E) ==
  LET tree == h[t]
      io == indexOf(tree.oversized, item)
      ic == indexOf(tree.contents, item)
      dir == calculateDirection(E[item], tree)
      relatedChild == tree.children[dir]
  IN IF io > 0
     THEN [h |-> [h EXCEPT ![t].oversized = splice(@, io),
                           ![t].size = @ - 1],
           removed |-> TRUE]
     ELSE IF ic > 0
     THEN [h |-> [h EXCEPT ![t].contents = splice(@, ic),
                           ![t].size = @ - 1],
           removed |-> TRUE]
     ELSE IF relatedChild # Null
     THEN LET r == removeRec(h, relatedChild, item, E) IN
          IF r.removed
          THEN [h |-> [r.h EXCEPT ![t].size = @ - 1,
                                  ![t].children[dir] =
                                     IF r.h[relatedChild].size = 0
                                     THEN Null ELSE @],
                removed |-> TRUE]
          ELSE [h |-> h, removed |-> FALSE]
     ELSE [h |-> h, removed |-> FALSE]

\* tree.remove(item)
remove(h, t, item, E) ==
  IF validateElement(E[item]) # "ok"
  THEN [h |-> h, removed |-> FALSE, error |-> validateElement(E[item])]
  ELSE LET r == removeRec(h, t, item, E) IN
       [h |-> r.h, removed |-> r.removed, error |-> "none"]


\* clear that empties the root's lists but keeps its children
clear_keepingChildren(h, t) ==
  [h EXCEPT ![t].contents = <<>>, ![t].oversized = <<>>, ![t].size = 0]

\* tree.clear()
clear(h, t) ==
  [h EXCEPT ![t].contents = <<>>, ![t].oversized = <<>>, ![t].size = 0,
            ![t].children = [d \in DirSet |-> Null]]

\* ------------------------------------------------------------------ queries
\* A predicate handed to find/filter/reject is modelled by its type and the
\* set of elements it answers true for.
call(predicate, i) == predicate.typeof = "function" /\ i \in predicate.holds

\* lines 295-313: the quadrants colliding/onCollision descend into
\* collidingFits that keeps NE and SW when both fallback tests hold
collidingFits_noCollapse(item, top) ==
  LET fits == fitting(item, top)
      ne == IF item.x >= top.x + top.width THEN <<"NE">> ELSE <<>>
      sw == IF item.y >= top.y + top.height THEN <<"SW">> ELSE <<>>
      fb == ne \o sw
  IN IF Len(fits) = 0
     THEN (IF Len(fb) = 1 THEN Append(fb, "SE") ELSE fb)
     ELSE fits

collidingFits(item, top) ==
  LET fits == fitting(item, top)
      ne == IF item.x >= top.x + top.width THEN <<"NE">> ELSE <<>>
      sw == IF item.y >= top.y + top.height THEN <<"SW">> ELSE <<>>
      fb == ne \o sw
  IN IF Len(fits) = 0
     THEN (IF Len(fb) > 0
           THEN (IF Len(fb) = 1 THEN Append(fb, "SE") ELSE <<"SE">>)
           ELSE fb)
     ELSE fits

\* the live children of a node among the given directions, in that order
liveChildren(top, ds) ==
  LET live == SelectSeq(ds, LAMBDA d : top.children[d] # Null) IN
  [i \in 1..Len(live) |-> top.children[live[i]]]

\* lines 280-320
RECURSIVE collidingLoop(_, _, _, _, _)
collidingLoop(h, fifo, item, E, items) ==
  IF fifo = <<>> THEN items
  ELSE LET top == h[Head(fifo)]
           hit(elt) == elt # item /\ boundingBoxCollision(E[item], E[elt])
           found == SelectSeq(top.oversized, hit) \o SelectSeq(top.contents, hit)
       IN collidingLoop(h,
                        Tail(fifo) \o liveChildren(top, collidingFits(E[item], top)),
                        item, E, items \o found)

\* tree.colliding(item) with the default collision function
colliding(h, t, item, E) ==
  IF validateElement(E[item]) # "ok"
  THEN [items |-> <<>>, error |-> validateElement(E[item])]
  ELSE [items |-> collidingLoop(h, <<t>>, item, E, <<>>), error |-> "none"]

\* collisionFunction(item, elt): the default parameter value is
\* boundingBoxCollision, a function passed in holds on the pairs it lists
collide(collisionFunction, item, elt, E) ==
  IF collisionFunction.typeof = "undefined"
  THEN boundingBoxCollision(E[item], E[elt])
  ELSE <<item, elt>> \in collisionFunction.holds

\* lines 280-320 with a collision function
RECURSIVE collidingWithLoop(_, _, _, _, _, _)
collidingWithLoop(h, fifo, item, collisionFunction, E, items) ==
  IF fifo = <<>> THEN items
  ELSE LET top == h[Head(fifo)]
           hit(elt) == elt # item /\ collide(collisionFunction, item, elt, E)
           found == SelectSeq(top.oversized, hit) \o SelectSeq(top.contents, hit)
       IN collidingWithLoop(h,
                            Tail(fifo)
                              \o liveChildren(top, collidingFits(E[item], top)),
                            item, collisionFunction, E, items \o found)

\* tree.colliding(item, collisionFunction)
collidingWith(h, t, item, collisionFunction, E) ==
  IF validateElement(E[item]) # "ok"
  THEN [items |-> <<>>, error |-> validateElement(E[item])]
  ELSE [items |-> collidingWithLoop(h, <<t>>, item, collisionFunction, E, <<>>),
        error |-> "none"]

RECURSIVE onCollisionLoop(_, _, _, _, _, _)

\* onCollisionLoop that returns after the first callback of a node
onCollisionLoop_firstOnly(h, fifo, item, collisionFunction, E, calls) ==
  IF fifo = <<>> THEN calls
  ELSE LET top == h[Head(fifo)]
           hit(elt) == elt # item /\ collide(collisionFunction, item, elt, E)
           called == SelectSeq(top.oversized, hit) \o SelectSeq(top.contents, hit)
       IN IF called # <<>> THEN Append(calls, Head(called))
          ELSE onCollisionLoop(h,
                               Tail(fifo)
                                 \o liveChildren(top, collidingFits(E[item], top)),
                               item, collisionFunction, E, calls)

\* lines 346-386: the elements callback is called with, in call order
onCollisionLoop(h, fifo, item, collisionFunction, E, calls) ==
  IF fifo = <<>> THEN calls
  ELSE LET top == h[Head(fifo)]
           hit(elt) == elt # item /\ collide(collisionFunction, item, elt, E)
           called == SelectSeq(top.oversized, hit) \o SelectSeq(top.contents, hit)
       IN onCollisionLoop(h,
                          Tail(fifo)
                            \o liveChildren(top, collidingFits(E[item], top)),
                          item, collisionFunction, E, calls \o called)

\* tree.onCollision(item, callback, collisionFunction): the calls made, or
\* the error thrown
onCollision(h, t, item, collisionFunction, E) ==
  IF validateElement(E[item]) # "ok"
  THEN [calls |-> <<>>, error |-> validateElement(E[item])]
  ELSE [calls |-> onCollisionLoop(h, <<t>>, item, collisionFunction, E, <<>>),
        error |-> "none"]

\* lines 487-506
RECURSIVE findLoop(_, _, _, _)
findLoop(h, fifo, predicate, items) ==
  IF fifo = <<>> THEN items
  ELSE LET top == h[Head(fifo)]
           ok(i) == call(predicate, i)
       IN findLoop(h, Tail(fifo) \o liveChildren(top, Dirs), predicate,
                   items \o SelectSeq(top.oversized, ok)
                         \o SelectSeq(top.contents, ok))

\* tree.find(predicate)
find(h, t, predicate) == findLoop(h, <<t>>, predicate, <<>>)

\* lines 400-406 and 420-438: every key of the query has the same value in elt
matches(query, elt) ==
  \A key \in DOMAIN query \ {"typeof"} : Has(elt, key) /\ elt[key] = query[key]

\* lines 413-446: one node per level, the child calculateDirection names
RECURSIVE whereLoop(_, _, _, _, _)
whereLoop(h, fifo, query, E, items) ==
  IF fifo = <<>> THEN items
  ELSE LET top == h[Head(fifo)]
           check(i) == matches(query, E[i])
           relatedChild == top.children[calculateDirection(query, top)]
       IN whereLoop(h,
                    Tail(fifo) \o (IF relatedChild # Null THEN <<relatedChild>>
                                                         ELSE <<>>),
                    query, E,
                    items \o SelectSeq(top.oversized, check)
                          \o SelectSeq(top.contents, check))

\* tree.where(query): the elements returned, or the error thrown
where(h, t, query, E) ==
  IF query.typeof = "object" /\ (~Has(query, "x") \/ ~Has(query, "y"))
  THEN [items |-> find(h, t, [typeof |-> "function",
                              holds |-> {i \in 1..Len(E) : matches(query, E[i])}]),
        error |-> "none"]
  ELSE IF validateElement(query) # "ok"
  THEN [items |-> <<>>, error |-> validateElement(query)]
  ELSE [items |-> whereLoop(h, <<t>>, query, E, <<>>), error |-> "none"]

RECURSIVE eachLoop(_, _, _)

\* eachLoop that puts the children of a node at the front of the fifo:
\* a depth-first walk
eachLoop_depthFirst(h, fifo, calls) ==
  IF fifo = <<>> THEN calls
  ELSE LET top == h[Head(fifo)] IN
       eachLoop(h, liveChildren(top, Dirs) \o Tail(fifo),
                calls \o top.oversized \o top.contents)

\* lines 459-478: the elements each(action) calls action on, in call order
eachLoop(h, fifo, calls) ==
  IF fifo = <<>> THEN calls
  ELSE LET top == h[Head(fifo)] IN
       eachLoop(h, Tail(fifo) \o liveChildren(top, Dirs),
                calls \o top.oversized \o top.contents)

\* tree.each(action) with a function for action
each(h, t) == eachLoop(h, <<t>>, <<>>)

\* lines 577-584: the nodes visit(action) binds action to, in call order
RECURSIVE visitLoop(_, _, _)
visitLoop(h, fifo, calls) ==
  IF fifo = <<>> THEN calls
  ELSE LET that == Head(fifo) IN
       visitLoop(h, Tail(fifo) \o liveChildren(h[that], Dirs),
                 Append(calls, that))

\* tree.visit(action)
visit(h, t) == visitLoop(h, <<t>>, <<>>)

\* ------------------------------------------------- what the queries write
\* The queries assign to no field of a node; the one access that can write
\* is the access to a child slot.

\* a slot read that creates the child it finds missing and still reports
\* the slot as empty
childTree_creatingSlot(h, t, direction) ==
  [h |-> get(h, t, direction), tree |-> h[t].children[direction]]

\* children[direction].tree: the field is read, get() is not called
childTree(h, t, direction) ==
  [h |-> h, tree |-> h[t].children[direction]]

\* the slots of the directions ds of node t read in turn: the heap
\* afterwards and the children found, in that order
RECURSIVE readChildren(_, _, _, _)
readChildren(h, t, ds, live) ==
  IF ds = <<>> THEN [h |-> h, live |-> live]
  ELSE LET c == childTree(h, t, Head(ds)) IN
       readChildren(c.h, t, Tail(ds),
                    IF c.tree # Null THEN Append(live, c.tree) ELSE live)

\* the directions whose slots a query reads at a node: those the item
\* fits for colliding and onCollision (lines 294-319), the one of
\* calculateDirection for where (line 442), all four in key order for
\* find, each and visit
slotsRead(access, top) ==
  IF access.by = "fits" THEN collidingFits(access.item, top)
  ELSE IF access.by = "direction"
  THEN <<calculateDirection(access.item, top)>>
  ELSE Dirs

\* the heap after a breadth-first query with the given access to children
RECURSIVE traversed(_, _, _)
traversed(h, fifo, access) ==
  IF fifo = <<>> THEN h
  ELSE LET r == readChildren(h, Head(fifo),
                             slotsRead(access, h[Head(fifo)]), <<>>) IN
       traversed(r.h, Tail(fifo) \o r.live, access)

\* lines 276-323
collidingAfter(h, t, item) ==
  IF validateElement(item) # "ok" THEN h
  ELSE traversed(h, <<t>>, [by |-> "fits", item |-> item])

\* lines 343-389
onCollisionAfter(h, t, item) ==
  IF validateElement(item) # "ok" THEN h
  ELSE traversed(h, <<t>>, [by |-> "fits", item |-> item])

\* lines 483-508
findAfter(h, t) == traversed(h, <<t>>, [by |-> "keys"])

\* lines 397-450
whereAfter(h, t, query) ==
  IF query.typeof = "object" /\ (~Has(query, "x") \/ ~Has(query, "y"))
  THEN findAfter(h, t)
  ELSE IF validateElement(query) # "ok" THEN h
  ELSE traversed(h, <<t>>, [by |-> "direction", item |-> query])

\* lines 392-394
getAfter(h, t, query) == whereAfter(h, t, query)

\* lines 456-480
eachAfter(h, t) == traversed(h, <<t>>, [by |-> "keys"])

\* lines 574-586
visitAfter(h, t) == traversed(h, <<t>>, [by |-> "keys"])

\* ------------------------------------------------------------ filter, reject
\* lines 536-551: the elements of a list the clone keeps
kept(s, predicate) ==
  SelectSeq(s, LAMBDA item : predicate.typeof = "null" \/ call(predicate, item))


\* deepclone that copies the node but links the children of the target
\* instead of cloning them
deepclone_shallow(h, t, c, predicate) ==
  LET target == h[t]
      sizeOf(d) == IF target.children[d] # Null
                   THEN h[target.children[d]].size ELSE 0
      oversized == kept(target.oversized, predicate)
      contents == kept(target.contents, predicate)
      size == sizeOf("NW") + sizeOf("NE") + sizeOf("SW") + sizeOf("SE")
                + Len(oversized) + Len(contents)
      copycat == [target EXCEPT !.oversized = oversized,
                                !.contents = contents, !.size = size]
  IN IF size = 0 THEN [h |-> h, root |-> Null]
     ELSE [h |-> (c :> copycat) @@ h, root |-> c]

\* lines 512-559: deepclone(target), the copy being allocated at reference c;
\* the result is the heap with the copies and the reference returned (Null
\* when the copy is empty)
RECURSIVE deepclone(_, _, _, _)
deepclone(h, t, c, predicate) ==
  LET target == h[t]
      sub(hh, d) == IF target.children[d] # Null
                    THEN deepclone(hh, target.children[d], Append(c, d), predicate)
                    ELSE [h |-> hh, root |-> Null]
      r1 == sub(h, "NW")
      r2 == sub(r1.h, "NE")
      r3 == sub(r2.h, "SW")
      r4 == sub(r3.h, "SE")
      kids == [NW |-> r1.root, NE |-> r2.root, SW |-> r3.root, SE |-> r4.root]
      sizeOf(r) == IF r.root # Null THEN r.h[r.root].size ELSE 0
      oversized == kept(target.oversized, predicate)
      contents == kept(target.contents, predicate)
      size == sizeOf(r1) + sizeOf(r2) + sizeOf(r3) + sizeOf(r4)
                + Len(oversized) + Len(contents)
      copycat == [QuadTree([x |-> target.x, y |-> target.y,
                            width |-> target.width, height |-> target.height,
                            maxElements |-> target.maxElements])
                    EXCEPT !.children = kids, !.oversized = oversized,
                           !.contents = contents, !.size = size]
  IN IF size = 0 THEN [h |-> r4.h, root |-> Null]
     ELSE [h |-> (c :> copycat) @@ r4.h, root |-> c]

\* tree.filter(predicate)
filter(h, t, c, predicate) == deepclone(h, t, c, predicate)

\* tree.reject(predicate): filter with the negating wrapper function
reject(h, t, c, predicate, all) ==
  filter(h, t, c,
         [typeof |-> "function",
          holds |-> {i \in all : ~call(predicate, i)}])

\* -------------------------------------------------------------------- state
\* heap    the fields of every live QuadTree node, by reference
\* clone   the tree the last filter/reject call returned (Null: none, or null)
\* elts    the properties of the objects callers hand to the tree
\* stored  how many times each object was pushed and not yet removed/cleared
\* last    the last call made and what it returned
\* spent   calls made since the clone was returned
\* worklist  the fifo of the call in progress, empty between calls

Ids == 1..7

\* the constructor arguments and the caller's objects of the explored runs
Scenarios ==
  { [opts |-> [x |-> 0, y |-> 0, width |-> 4, height |-> 4, maxElements |-> 2],
     elts |-> <<[typeof |-> "object", x |-> 0, y |-> 0, width |-> 1, height |-> 1],
                [typeof |-> "object", x |-> 3, y |-> 0],
                [typeof |-> "object", x |-> -1, y |-> 2, width |-> 2, height |-> 1],
                [typeof |-> "object", x |-> -2, y |-> 2, width |-> 2, height |-> 2],
                [typeof |-> "object", x |-> 1, y |-> 1, width |-> 2, height |-> 2],
                [typeof |-> "object", x |-> 0, y |-> 0, width |-> -1, height |-> 1],
                [typeof |-> "object", y |-> 1, width |-> 1, height |-> 1]>>],
    [opts |-> [x |-> 1, y |-> 1, width |-> 5, height |-> 4, maxElements |-> 1],
     elts |-> <<[typeof |-> "object", x |-> 1, y |-> 1, width |-> 1, height |-> 1],
                [typeof |-> "object", x |-> 2, y |-> 2],
                [typeof |-> "object", x |-> 5, y |-> 4, width |-> 2, height |-> 2],
                [typeof |-> "object", x |-> 6, y |-> 5, width |-> 1, height |-> 1],
                [typeof |-> "object", x |-> 4, y |-> 1, width |-> 0, height |-> 1],
                [typeof |-> "object", x |-> 0, y |-> 0, width |-> 1, height |-> -2],
                [typeof |-> "string"]>>] }

Valid(E) == {i \in Ids : validateElement(E[i]) = "ok"}

\* the predicates callers pass to find, filter and reject
Predicates(E) ==
  { [typeof |-> "function", holds |-> Ids],
    [typeof |-> "function", holds |-> {}],
    [typeof |-> "function", holds |-> {i \in Valid(E) : E[i].x > 1}],
    [typeof |-> "null", holds |-> {}] }

\* the queries callers pass to where: an object, its origin alone, its
\* origin with a height
Queries(E) ==
  {E[i] : i \in {j \in 1..Len(E) : E[j].typeof = "object"}}
    \cup {[typeof |-> "object", x |-> E[i].x, y |-> E[i].y] : i \in Valid(E)}
    \cup {[typeof |-> "object", x |-> E[i].x, y |-> E[i].y, height |-> 1] :
             i \in Valid(E)}

NoPredicate == [typeof |-> "undefined", holds |-> {}]

\* the call was no construction
NoOptions ==
  [x |-> <<>>, y |-> <<>>, width |-> <<>>, height |-> <<>>, maxElements |-> <<>>]

\* the batches callers pass to pushAll
RECURSIVE SeqsOf(_, _)
SeqsOf(S, n) ==
  IF n = 0 THEN {<<>>}
  ELSE {Append(s, x) : s \in SeqsOf(S, n - 1), x \in S}

Batches == {<<>>} \cup UNION {SeqsOf(Ids, n) : n \in 2..MaxBatch}

\* before: the number of elements the tree called on held when called
Call(op, before) ==
  [op |-> op, before |-> before, predicate |-> NoPredicate, item |-> 0,
   options |-> NoOptions, returned |-> FALSE, error |-> "none", out |-> <<>>]

Roots == {RootRef, clone}

Init ==
  /\ \E s \in Scenarios :
       /\ heap = (RootRef :> QuadTree(s.opts))
       /\ elts = s.elts
  /\ clone = Null
  /\ stored = [i \in Ids |-> 0]
  /\ last = Call("new", 0)
  /\ spent = 0
  /\ worklist = <<>>

\* a call is explored while no clone is live or the budget lasts
MayCall == clone = Null \/ spent < MaxCloneOps

Spend == spent' = IF clone = Null THEN spent ELSE spent + 1

SizeOf(t) == heap[t].size

\* ------------------------------------------------------------------ actions
Push(item) ==
  /\ MayCall
  /\ SizeOf(RootRef) < MaxSize
  /\ LET r == push(heap, RootRef, item, elts) IN
       /\ heap' = Collect(r.h, Roots)
       /\ stored' = IF r.error = "none"
                    THEN [stored EXCEPT ![item] = @ + 1] ELSE stored
       /\ last' = [Call("push", SizeOf(RootRef)) EXCEPT !.error = r.error]
  /\ Spend
  /\ UNCHANGED <<worklist, clone, elts>>

RECURSIVE CountIn(_, _)
CountIn(s, v) ==
  IF s = <<>> THEN 0
  ELSE (IF Head(s) = v THEN 1 ELSE 0) + CountIn(Tail(s), v)

PushAll(items) ==
  /\ MayCall
  /\ SizeOf(RootRef) + Len(items) <= MaxSize
  /\ LET r == pushAll(heap, RootRef, items, elts) IN
       /\ heap' = Collect(r.h, Roots)
       /\ stored' = IF r.error = "none"
                    THEN [i \in Ids |-> stored[i] + CountIn(items, i)]
                    ELSE stored
       /\ last' = [Call("pushAll", SizeOf(RootRef)) EXCEPT !.error = r.error]
  /\ Spend
  /\ UNCHANGED <<worklist, clone, elts>>

Remove(item) ==
  /\ MayCall
  /\ LET r == remove(heap, RootRef, item, elts) IN
       /\ heap' = Collect(r.h, Roots)
       /\ stored' = IF r.removed
                    THEN [stored EXCEPT ![item] = @ - 1] ELSE stored
       /\ last' = [Call("remove", SizeOf(RootRef))
                     EXCEPT !.error = r.error, !.returned = r.removed]
  /\ Spend
  /\ UNCHANGED <<worklist, clone, elts>>

Clear ==
  /\ MayCall
  /\ heap' = Collect(clear(heap, RootRef), Roots)
  /\ stored' = [i \in Ids |-> 0]
  /\ last' = Call("clear", SizeOf(RootRef))
  /\ Spend
  /\ UNCHANGED <<worklist, clone, elts>>

Colliding(item) ==
  /\ MayCall
  /\ LET r == colliding(heap, RootRef, item, elts) IN
       last' = [Call("colliding", SizeOf(RootRef))
                  EXCEPT !.error = r.error, !.out = r.items]
  /\ Spend
  /\ UNCHANGED <<worklist, heap, clone, elts, stored>>

Find(predicate) ==
  /\ MayCall
  /\ last' = [Call("find", SizeOf(RootRef))
                EXCEPT !.out = find(heap, RootRef, predicate)]
  /\ Spend
  /\ UNCHANGED <<worklist, heap, clone, elts, stored>>

Where(query) ==
  /\ MayCall
  /\ LET r == where(heap, RootRef, query, elts) IN
       last' = [Call("where", SizeOf(RootRef))
                  EXCEPT !.error = r.error, !.out = r.items]
  /\ Spend
  /\ UNCHANGED <<worklist, heap, clone, elts, stored>>

Each ==
  /\ MayCall
  /\ last' = [Call("each", SizeOf(RootRef)) EXCEPT !.out = each(heap, RootRef)]
  /\ Spend
  /\ UNCHANGED <<worklist, heap, clone, elts, stored>>

Filter(predicate) ==
  /\ LET r == filter(heap, RootRef, CloneRef, predicate) IN
       /\ clone' = r.root
       /\ heap' = Collect(r.h, {RootRef, r.root})
  /\ last' = [Call("filter", SizeOf(RootRef)) EXCEPT !.predicate = predicate]
  /\ spent' = 0
  /\ UNCHANGED <<worklist, elts, stored>>

Reject(predicate) ==
  /\ LET r == reject(heap, RootRef, CloneRef, predicate, Ids) IN
       /\ clone' = r.root
       /\ heap' = Collect(r.h, {RootRef, r.root})
  /\ last' = [Call("reject", SizeOf(RootRef)) EXCEPT !.predicate = predicate]
  /\ spent' = 0
  /\ UNCHANGED <<worklist, elts, stored>>

\* the same calls made on the clone
ClonePush(item) ==
  /\ clone # Null
  /\ spent < MaxCloneOps
  /\ SizeOf(clone) < MaxSize
  /\ LET r == push(heap, clone, item, elts) IN
       /\ heap' = Collect(r.h, Roots)
       /\ last' = [Call("clone.push", SizeOf(clone)) EXCEPT !.error = r.error]
  /\ spent' = spent + 1
  /\ UNCHANGED <<worklist, clone, elts, stored>>

CloneRemove(item) ==
  /\ clone # Null
  /\ spent < MaxCloneOps
  /\ LET r == remove(heap, clone, item, elts) IN
       /\ heap' = Collect(r.h, Roots)
       /\ last' = [Call("clone.remove", SizeOf(clone))
                     EXCEPT !.error = r.error, !.returned = r.removed]
  /\ spent' = spent + 1
  /\ UNCHANGED <<worklist, clone, elts, stored>>

CloneClear ==
  /\ clone # Null
  /\ spent < MaxCloneOps
  /\ heap' = Collect(clear(heap, clone), Roots)
  /\ last' = Call("clone.clear", SizeOf(clone))
  /\ spent' = spent + 1
  /\ UNCHANGED <<worklist, clone, elts, stored>>

Next ==
  \/ \E item \in Ids : Push(item)
  \/ \E items \in Batches : PushAll(items)
  \/ \E item \in Ids : Remove(item)
  \/ Clear
  \/ \E item \in Ids : Colliding(item)
  \/ \E predicate \in Predicates(elts) : Find(predicate)
  \/ \E query \in Queries(elts) : Where(query)
  \/ Each
  \/ \E predicate \in Predicates(elts) : Filter(predicate)
  \/ \E predicate \in Predicates(elts) : Reject(predicate)
  \/ \E item \in Ids : ClonePush(item)
  \/ \E item \in Ids : CloneRemove(item)
  \/ CloneClear

Spec == Init /\ [][Next]_vars

\* ------------------------------------------------------------ observations
\* the nodes and fields one root reaches
View(h, t) == Collect(h, {t})

\* how often each object occurs in a sequence of elements
BagOf(s) == [i \in Ids |-> CountIn(s, i)]

Range(s) == {s[i] : i \in 1..Len(s)}

Always == [typeof |-> "function", holds |-> Ids]

Same(e) == [typeof |-> "function", holds |-> {e}]

Trees == Roots \ {Null}

HasChild(node) == \E d \in DirSet : node.children[d] # Null

\* the elements stored in the subtrees of the live children of a node
RECURSIVE BelowCount(_, _)
BelowCount(h, r) ==
  LET kid(d) == h[r].children[d]
      sub(d) == IF kid(d) = Null THEN 0
                ELSE Len(h[kid(d)].oversized) + Len(h[kid(d)].contents)
                       + BelowCount(h, kid(d))
  IN sub("NW") + sub("NE") + sub("SW") + sub("SE")

\* ------------------------------------------------------------------- claims

\* C1: for every valid query item, colliding(item) returns exactly the stored
\* elements other than item that overlap item under the bounding-box test,
\* elements and items outside the root extent included.
C1_CollidingIsExhaustive ==
  \A item \in Valid(elts) :
    Range(colliding(heap, RootRef, item, elts).items)
      = {e \in Range(each(heap, RootRef)) :
           e # item /\ boundingBoxCollision(elts[item], elts[e])}

\* C2: an element stored once is found by identity, remove returns true for
\* it, afterwards it is found no more while every other element stays, and a
\* second remove returns false.
C2_RemoveRoundTrip ==
  \A t \in Trees : \A e \in Valid(elts) :
    CountIn(each(heap, t), e) = 1 =>
      LET r1 == remove(heap, t, e, elts)
          r2 == remove(r1.h, t, e, elts)
      IN /\ find(heap, t, Same(e)) = <<e>>
         /\ r1.removed
         /\ find(r1.h, t, Same(e)) = <<>>
         /\ BagOf(each(r1.h, t)) = [BagOf(each(heap, t)) EXCEPT ![e] = 0]
         /\ ~r2.removed

C2_Witness ==
  /\ last.op = "remove" /\ last.returned /\ last.before = 3
  /\ \E r \in Reach(heap, RootRef) :
       Len(r) = 3 /\ Len(heap[r].oversized) + Len(heap[r].contents) = 1

\* C3: find with an always-true predicate returns exactly the multiset of
\* elements pushed and not since removed or cleared.
C3_Conservation == BagOf(find(heap, RootRef, Always)) = stored

C3_Witness ==
  /\ last.op = "remove" /\ last.returned
  /\ HasChild(heap[RootRef])
  /\ \E i \in Ids : stored[i] = 2

\* C5: clear() yields the state of a freshly constructed tree of the same
\* extent and maxElements, on which every query returns nothing.
C5_ClearIsFresh ==
  \A t \in Trees :
    LET c == clear(heap, t) IN
    /\ View(c, t) = (t :> QuadTree(heap[t]))
    /\ \A item \in Valid(elts) : colliding(c, t, item, elts).items = <<>>
    /\ find(c, t, Always) = <<>>
    /\ each(c, t) = <<>>
    /\ last.op = "clear" => View(heap, RootRef) = View(c, RootRef)

C5_Witness ==
  /\ last.op = "clear" /\ last.before = 3
  /\ heap[RootRef].size = 0

\* C6: a pushAll whose batch holds an invalid item, at any position, fails
\* and leaves every node as it was.
C6_PushAllAllOrNothing ==
  /\ \A items \in Batches :
       (\E k \in 1..Len(items) : items[k] \notin Valid(elts)) =>
         LET r == pushAll(heap, RootRef, items, elts) IN
         r.error # "none" /\ r.h = heap
  /\ (last.op = "pushAll" /\ last.error # "none") =>
       heap[RootRef].size = last.before

C6_Witness ==
  /\ last.op = "pushAll" /\ last.error # "none" /\ last.before = 1
  /\ heap[RootRef].size = 1

\* C7: filter(p) yields a tree whose elements are exactly the elements of the
\* original that satisfy p, for an empty original and an unsatisfied p too.
C7_FilterYieldsMatchingTree ==
  last.op = "filter" =>
    /\ clone # Null
    /\ BagOf(each(heap, clone))
         = BagOf(kept(each(heap, RootRef), last.predicate))

\* C8: filter and reject leave the source as it was, and afterwards a call on
\* the clone changes no node of the source and a call on the source changes
\* no node of the clone.
C8_CloneIndependent ==
  [][/\ last'.op \in {"filter", "reject"} =>
          View(heap', RootRef) = View(heap, RootRef)
     /\ last'.op \in {"clone.push", "clone.remove", "clone.clear"} =>
          View(heap', RootRef) = View(heap, RootRef)
     /\ (clone # Null /\ last'.op \in {"push", "pushAll", "remove", "clear"}) =>
          View(heap', clone) = View(heap, clone)
     /\ Reach(heap', RootRef) \cap Reach(heap', clone') = {}]_vars

C8_Witness ==
  /\ last.op = "clone.push" /\ last.error = "none"
  /\ HasChild(heap[clone])
  /\ HasChild(heap[RootRef])

\* C9: no node ever holds more than maxElements elements in its contents.
C9_ContentsBounded ==
  \A r \in DOMAIN heap : Len(heap[r].contents) <= heap[r].maxElements

C9_Witness ==
  /\ clone # Null
  /\ \E r \in Reach(heap, RootRef) :
       Len(r) = 2 /\ Len(heap[r].contents) = heap[r].maxElements
  /\ \E r \in Reach(heap, clone) : Len(heap[r].contents) = heap[r].maxElements

\* C10 as claimed: a node with a live child has empty contents.
C10_SplitNodeKeepsNoContents ==
  \A r \in Reach(heap, RootRef) :
    HasChild(heap[r]) => heap[r].contents = <<>>

\* C10 as amended: a node holds contents only while its contents and the
\* elements below its live children together number at most maxElements; a
\* split node takes contents again once removals bring it back under that.
C10_ContentsWithinThreshold ==
  \A r \in Reach(heap, RootRef) :
    heap[r].contents # <<>> =>
      Len(heap[r].contents) + BelowCount(heap, r) <= heap[r].maxElements

C10_Witness ==
  /\ last.op = "push"
  /\ HasChild(heap[RootRef])
  /\ heap[RootRef].contents # <<>>

\* -------------------------------------------- the collision test on its own
\* A second specification: the tree of the test suite, one stored rectangle
\* elts[1] and one query rectangle elts[2], both drawn from BoxRects.

\* a rectangle; a negative w or h stands for an absent width or height
MkRect(x, y, w, h) ==
  IF w < 0 /\ h < 0 THEN [typeof |-> "object", x |-> x, y |-> y]
  ELSE IF w < 0 THEN [typeof |-> "object", x |-> x, y |-> y, height |-> h]
  ELSE IF h < 0 THEN [typeof |-> "object", x |-> x, y |-> y, width |-> w]
  ELSE [typeof |-> "object", x |-> x, y |-> y, width |-> w, height |-> h]

\* rect1 and the query rectangles of the test suite
Rect1 == MkRect(10, 10, 100, 100)

QueryAt(c) == MkRect(c, c, 100, 100)

BoxRects ==
  {MkRect(x, y, w, h) : x \in 0..2, y \in 0..1, w \in {-1, 0, 2}, h \in {-1, 2}}
    \cup {Rect1, QueryAt(50), QueryAt(55), QueryAt(109), QueryAt(110), QueryAt(111)}

InitBox ==
  /\ heap = (RootRef :> QuadTree([x |-> 0, y |-> 0, width |-> 10000,
                                  height |-> 10000, maxElements |-> 5]))
  /\ \E a \in BoxRects, b \in BoxRects : elts = <<a, b>>
  /\ clone = Null
  /\ stored = [i \in Ids |-> 0]
  /\ last = Call("new", 0)
  /\ spent = 0
  /\ worklist = <<>>

\* quadTree.push(rect1)
BoxPush == SizeOf(RootRef) = 0 /\ Push(1)

\* quadTree.colliding(rect2)
BoxColliding == Colliding(2)

NextBox == BoxPush \/ BoxColliding

SpecBox == InitBox /\ [][NextBox]_vars

Min(a, b) == IF a <= b THEN a ELSE b

\* the two rectangles share a boundary line on some side
Touching(a, b) ==
  \/ a.x + WidthOf(a) = b.x
  \/ b.x + WidthOf(b) = a.x
  \/ a.y + HeightOf(a) = b.y
  \/ b.y + HeightOf(b) = a.y

\* the two rectangles intersect by at least one unit on both axes
OverlapByOne(a, b) ==
  /\ Min(a.x + WidthOf(a), b.x + WidthOf(b)) - Max(a.x, b.x) >= 1
  /\ Min(a.y + HeightOf(a), b.y + HeightOf(b)) - Max(a.y, b.y) >= 1

\* C4: the default collision test is false for rectangles that only touch,
\* true for rectangles that intersect by a unit on both axes, and symmetric;
\* with rect1 stored, colliding at (110,110) and (111,111) returns nothing and
\* at (109,109) and (55,55) returns rect1.
C4_BoxCollision ==
  LET a == elts[1]
      b == elts[2]
      asked == last.op = "colliding" /\ SizeOf(RootRef) = 1 /\ a = Rect1
  IN /\ Touching(a, b) => ~boundingBoxCollision(a, b)
     /\ OverlapByOne(a, b) => boundingBoxCollision(a, b)
     /\ boundingBoxCollision(a, b) = boundingBoxCollision(b, a)
     /\ (asked /\ b \in {QueryAt(110), QueryAt(111)}) => last.out = <<>>
     /\ (asked /\ b \in {QueryAt(109), QueryAt(55)}) => last.out = <<1>>

C4_Witness ==
  /\ last.op = "colliding" /\ SizeOf(RootRef) = 1
  /\ elts[1] = Rect1 /\ elts[2] = QueryAt(109)
  /\ last.out = <<1>>

\* ------------------------------------------------------ the quadrant split
\* Trees of every small integer extent, and the lazy creation of the four
\* children of their root (children[direction].get(), lines 124-133).

SplitOrigins == {-1, 0, 2}

InitSplit ==
  /\ \E x \in SplitOrigins, y \in SplitOrigins, w \in 1..MaxDim, h \in 1..MaxDim :
       heap = (RootRef :> QuadTree([x |-> x, y |-> y, width |-> w,
                                    height |-> h, maxElements |-> 1]))
  /\ elts = <<>>
  /\ clone = Null
  /\ stored = [i \in Ids |-> 0]
  /\ last = Call("new", 0)
  /\ spent = 0
  /\ worklist = <<>>

Get(direction) ==
  /\ heap[RootRef].children[direction] = Null
  /\ heap' = get(heap, RootRef, direction)
  /\ UNCHANGED <<worklist, clone, elts, stored, last, spent>>

NextSplit == \E direction \in DirSet : Get(direction)

SpecSplit == InitSplit /\ [][NextSplit]_vars

\* the unit cells of an integer rectangle
Cells(r) ==
  {<<px, py>> : px \in r.x..(r.x + r.width - 1), py \in r.y..(r.y + r.height - 1)}

QuadrantsPositive(node) ==
  \A d \in DirSet : splitTree(node)[d].width >= 1 /\ splitTree(node)[d].height >= 1

QuadrantsHalve(node) ==
  LET q == splitTree(node) IN
    /\ q.NW.width = Max(FloorHalf(node.width), 1)
    /\ q.NE.width = CeilHalf(node.width)
    /\ q.NW.height = Max(FloorHalf(node.height), 1)
    /\ q.SW.height = CeilHalf(node.height)

QuadrantsTile(node) ==
  LET q == splitTree(node) IN
    /\ q.NW.width + q.NE.width = node.width
    /\ q.NW.height + q.SW.height = node.height
    /\ \A d \in DirSet, e \in DirSet :
         d # e => /\ ~boundingBoxCollision(q[d], q[e])
                  /\ Cells(q[d]) \cap Cells(q[e]) = {}
    /\ UNION {Cells(q[d]) : d \in DirSet} = Cells(node)

\* a lazily created child has the geometry of its quadrant
ChildrenAreQuadrants(h, r) ==
  \A d \in DirSet :
    h[r].children[d] # Null =>
      LET c == h[h[r].children[d]]
          q == splitTree(h[r])[d]
      IN c.x = q.x /\ c.y = q.y /\ c.width = q.width /\ c.height = q.height

\* C11 as stated: for every node of integer width and height at least 1 the
\* four quadrants of splitTree, which are the extents of the lazily created
\* children, have width and height at least 1, do not overlap pairwise, have
\* left + right = width and top + bottom = height with left = max(floor(w/2),
\* 1) and right = ceil(w/2), and together cover exactly the node's rectangle.
C11_QuadrantsTile ==
  \A r \in DOMAIN heap :
    /\ QuadrantsPositive(heap[r])
    /\ QuadrantsHalve(heap[r])
    /\ QuadrantsTile(heap[r])
    /\ ChildrenAreQuadrants(heap, r)

\* C11 amended: the quadrants always have width and height at least 1 and
\* are the extents of the lazily created children; they tile the node's
\* rectangle exactly when its width and height are both at least 2.  At
\* width 1 the left and the right quadrants are both 1 wide, so the right
\* ones lie beyond the node (likewise the bottom ones at height 1).
C11_QuadrantsTileFromTwo ==
  \A r \in DOMAIN heap :
    LET node == heap[r]
        q == splitTree(node)
    IN /\ QuadrantsPositive(node)
       /\ QuadrantsHalve(node)
       /\ ChildrenAreQuadrants(heap, r)
       /\ (node.width >= 2 /\ node.height >= 2) => QuadrantsTile(node)
       /\ node.width = 1 =>
            q.NW.width = 1 /\ q.NE.width = 1 /\ q.NE.x = node.x + node.width
       /\ node.height = 1 =>
            q.NW.height = 1 /\ q.SW.height = 1 /\ q.SW.y = node.y + node.height

C11_Witness ==
  /\ heap[RootRef].width = MaxDim
  /\ heap[RootRef].height = 3
  /\ \A d \in DirSet : heap[RootRef].children[d] # Null

\* ------------------------------------------------------- claims, continued

UnitNode(node) == node.width = 1 \/ node.height = 1

\* C12: in every tree reachable by push, pushAll, remove, clear, filter and
\* reject, a node of width 1 or height 1 holds every element that reaches it
\* in oversized: its contents is empty and it has no live child, however
\* many elements arrive.
C12_UnitNodesNeverSplit ==
  \A r \in DOMAIN heap :
    UnitNode(heap[r]) =>
      /\ heap[r].contents = <<>>
      /\ ~HasChild(heap[r])
      /\ Len(heap[r].oversized) = heap[r].size

\* a node of width 1 holds more elements than maxElements, two of them
\* overlapping one quadrant only
C12_Witness ==
  \E r \in DOMAIN heap :
    /\ UnitNode(heap[r])
    /\ Len(heap[r].oversized) > heap[r].maxElements
    /\ \E i \in 1..Len(heap[r].oversized) :
         Len(fitting(elts[heap[r].oversized[i]], heap[r])) = 1

\* the queries the optimised path of where accepts
PointQueries(E) ==
  {q \in Queries(E) : Has(q, "x") /\ Has(q, "y") /\ validateElement(q) = "ok"}

Matching(query, E) ==
  [typeof |-> "function", holds |-> {i \in 1..Len(E) : matches(query, E[i])}]

\* C13: for a query holding x and y, where(query) returns exactly the stored
\* elements e with e[k] = query[k] for every key k of the query, the result
\* of the exhaustive scan find makes with that test: the single path the
\* query's origin selects reaches every node that can hold a match.
C13_WhereIsExhaustive ==
  \A t \in Trees : \A query \in PointQueries(elts) :
    LET r == where(heap, t, query, elts) IN
      /\ r.error = "none"
      /\ r.items = find(heap, t, Matching(query, elts))
      /\ BagOf(r.items)
           = [i \in Ids |-> IF matches(query, elts[i])
                            THEN CountIn(each(heap, t), i) ELSE 0]

\* where has returned an element stored two levels below the root while the
\* tree holds an element that does not match
C13_Witness ==
  /\ last.op = "where"
  /\ Len(last.out) < SizeOf(RootRef)
  /\ \E r \in DOMAIN heap :
       /\ Len(r) >= 3
       /\ r[1] = "root"
       /\ \E i \in 1..Len(last.out) :
            last.out[i] \in Range(heap[r].oversized) \cup Range(heap[r].contents)

\* the elements stored in the subtree of a node
Below(h, r) == eachLoop(h, <<r>>, <<>>)

\* C14: in every tree reachable by push, pushAll, remove and clear, and in
\* every clone filter or reject returns, a child that is live has size at
\* least 1 and its subtree holds at least one element.
C14_NoEmptyLiveChild ==
  \A r \in DOMAIN heap : \A d \in DirSet :
    LET c == heap[r].children[d] IN
      c # Null => c \in DOMAIN heap /\ heap[c].size >= 1 /\ Len(Below(heap, c)) >= 1

\* a remove call has succeeded on a split tree and the slot of a quadrant
\* whose element is no longer stored is empty, next to a live child
C14_Witness ==
  /\ last.op = "remove" /\ last.returned
  /\ HasChild(heap[RootRef])
  /\ \E d \in DirSet, i \in Valid(elts) :
       /\ heap[RootRef].children[d] = Null
       /\ stored[i] = 0
       /\ fitting(elts[i], heap[RootRef]) = <<d>>
  /\ clone # Null /\ HasChild(heap[clone])

\* the sum of the sizes of the live children of a node
ChildSizes(h, r) ==
  LET sz(d) == IF h[r].children[d] = Null THEN 0 ELSE h[h[r].children[d]].size
  IN sz("NW") + sz("NE") + sz("SW") + sz("SE")

\* C19: in every reachable tree and in every clone filter or reject
\* returns, every node has size = oversized.length + contents.length + the
\* sum of the sizes of its live children, so the size of a root is the
\* number of elements each visits.
C19_SizeIsSumOfParts ==
  /\ \A r \in DOMAIN heap :
       heap[r].size
         = Len(heap[r].oversized) + Len(heap[r].contents) + ChildSizes(heap, r)
  /\ \A t \in Trees : heap[t].size = Len(each(heap, t))

\* a remove call has succeeded below the root of a tree that still has a
\* live child holding elements, and a clone with a live child exists
C19_Witness ==
  /\ last.op = "remove" /\ last.returned
  /\ ChildSizes(heap, RootRef) >= 1
  /\ ChildSizes(heap, RootRef) + Len(heap[RootRef].oversized)
       + Len(heap[RootRef].contents) = last.before - 1
  /\ \E i \in Valid(elts) :
       stored[i] = 0 /\ Len(fitting(elts[i], heap[RootRef])) = 1
  /\ clone # Null /\ ChildSizes(heap, clone) >= 1

\* C20: in every reachable tree and clone, every element stored below a
\* node overlaps exactly one quadrant of that node, the quadrant of the
\* child it is stored under, and calculateDirection names that quadrant for
\* it; every element in the contents of a node overlaps exactly one quadrant
\* of that node.
C20_RoutingInvariant ==
  \A a \in DOMAIN heap :
    /\ \A d \in DirSet :
         LET c == heap[a].children[d] IN
           c # Null =>
             \A e \in Range(Below(heap, c)) :
               /\ fitting(elts[e], heap[a]) = <<d>>
               /\ calculateDirection(elts[e], heap[a]) = d
    /\ \A e \in Range(heap[a].contents) : Len(fitting(elts[e], heap[a])) = 1

\* an element is stored two levels below the root, another in the contents
\* of a node, one reaches beyond the root, and a clone holds one below its root
C20_Witness ==
  /\ \E r \in DOMAIN heap :
       Len(r) >= 3 /\ r[1] = "root" /\ heap[r].size >= 1
  /\ \E r \in DOMAIN heap : heap[r].contents # <<>>
  /\ \E e \in Range(Below(heap, RootRef)) \ Range(heap[RootRef].oversized) :
       \/ elts[e].x < heap[RootRef].x
       \/ elts[e].x + WidthOf(elts[e]) > heap[RootRef].x + heap[RootRef].width
  /\ clone # Null /\ HasChild(heap[clone])

\* ------------------------------------------------- insertions into a fresh tree
\* A fresh 4x4 tree with maxElements 1 or 2 and seven unit-sized or
\* quadrant-sized objects, three of them inside the NW quadrant; only
\* push and pushAll are called, until the tree holds maxElements + 1.

FreshElts ==
  <<[typeof |-> "object", x |-> 0, y |-> 0, width |-> 1, height |-> 1],
    [typeof |-> "object", x |-> 1, y |-> 1, width |-> 1, height |-> 1],
    [typeof |-> "object", x |-> 0, y |-> 1, width |-> 1, height |-> 1],
    [typeof |-> "object", x |-> 3, y |-> 0, width |-> 1, height |-> 1],
    [typeof |-> "object", x |-> 2, y |-> 2, width |-> 2, height |-> 2],
    [typeof |-> "object", x |-> 0, y |-> 0, width |-> 2, height |-> 2],
    [typeof |-> "object", x |-> 0, y |-> 3, width |-> 1, height |-> 1]>>

InitFresh ==
  /\ \E m \in 1..(MaxSize - 1) :
       heap = (RootRef :> QuadTree([x |-> 0, y |-> 0, width |-> 4,
                                    height |-> 4, maxElements |-> m]))
  /\ elts = FreshElts
  /\ clone = Null
  /\ stored = [i \in Ids |-> 0]
  /\ last = Call("new", 0)
  /\ spent = 0
  /\ worklist = <<>>

FreshPush(item) == SizeOf(RootRef) <= heap[RootRef].maxElements /\ Push(item)

FreshPushAll(items) == SizeOf(RootRef) = 0 /\ PushAll(items)

NextFresh ==
  \/ \E item \in Ids : FreshPush(item)
  \/ \E items \in SeqsOf(Ids, heap[RootRef].maxElements + 1) : FreshPushAll(items)

SpecFresh == InitFresh /\ [][NextFresh]_vars

Inserted == {i \in Ids : stored[i] > 0}

\* maxElements + 1 distinct, pairwise disjoint elements, each overlapping
\* exactly one quadrant of the root, have been inserted into the fresh tree
FreshCase ==
  /\ SizeOf(RootRef) = heap[RootRef].maxElements + 1
  /\ \A i \in Inserted :
       /\ stored[i] = 1
       /\ Len(fitting(elts[i], heap[RootRef])) = 1
       /\ \A j \in Inserted \ {i} : ~boundingBoxCollision(elts[i], elts[j])

\* the child of the quadrant an element overlaps
ChildFor(i) == heap[RootRef].children[fitting(elts[i], heap[RootRef])[1]]

OnlyRootHasChildren ==
  /\ HasChild(heap[RootRef])
  /\ \A r \in DOMAIN heap \ {RootRef} : ~HasChild(heap[r])

Options ==
  [x : {<<>>, <<Num(0)>>, <<Num(2)>>, <<[whole |-> 1, half |-> TRUE]>>},
   y : {<<>>, <<Num(-1)>>, <<[whole |-> 0, half |-> TRUE]>>},
   width : {<<>>, <<0>>, <<1>>, <<4>>},
   height : {<<>>, <<-1>>, <<3>>},
   maxElements : {<<>>, <<-1>>, <<0>>, <<1>>, <<2>>}]

NoHeap == [r \in {} |-> Null]

InitNew ==
  /\ heap = NoHeap
  /\ elts = <<>>
  /\ clone = Null
  /\ stored = [i \in Ids |-> 0]
  /\ last = Call("none", 0)
  /\ spent = 0
  /\ worklist = <<>>

New(options) ==
  /\ last.op = "none"
  /\ LET r == construct(options) IN
       /\ heap' = IF r.error = "none" THEN (RootRef :> r.tree) ELSE heap
       /\ last' = [Call("new", 0) EXCEPT !.options = options, !.error = r.error]
  /\ UNCHANGED <<worklist, clone, elts, stored, spent>>

NextNew == \E options \in Options : New(options)

SpecNew == InitNew /\ [][NextNew]_vars

\* the options the claim says construction fails on
Rejected(o) ==
  \/ ~Given(o.width) \/ ~Given(o.height)
  \/ o.width[1] < 1 \/ o.height[1] < 1
  \/ (Given(o.x) /\ ~isInteger(o.x[1]))
  \/ (Given(o.y) /\ ~isInteger(o.y[1]))
  \/ (Given(o.maxElements) /\ o.maxElements[1] < 1)

\* C16: construction throws, and yields no tree, exactly when width or
\* height is missing or below 1, x or y is not an integer, or maxElements is
\* supplied and below 1, zero included; otherwise it yields an empty tree of
\* the given extent, x and y defaulting to 0 and maxElements to 1 only when
\* left out.
C16_ConstructionValidates ==
  last.op = "new" =>
    LET o == last.options IN
      /\ last.error # "none" <=> Rejected(o)
      /\ Rejected(o) => heap = NoHeap
      /\ ~Rejected(o) =>
           /\ DOMAIN heap = {RootRef}
           /\ heap[RootRef] =
                QuadTree([x |-> IF Given(o.x) THEN o.x[1].whole ELSE 0,
                          y |-> IF Given(o.y) THEN o.y[1].whole ELSE 0,
                          width |-> o.width[1], height |-> o.height[1],
                          maxElements |-> IF Given(o.maxElements)
                                          THEN o.maxElements[1] ELSE 1])

\* ------------------------------------------ the right and the bottom edge
\* A 4x4 tree at (1, 1) with maxElements 1 and seven objects in, across and
\* beyond its right and bottom edges, none beyond its left or top edge.

EdgeElts ==
  <<[typeof |-> "object", x |-> 4, y |-> 4, width |-> 3, height |-> 3],
    [typeof |-> "object", x |-> 4, y |-> 1, width |-> 3, height |-> 1],
    [typeof |-> "object", x |-> 1, y |-> 4, width |-> 1, height |-> 3],
    [typeof |-> "object", x |-> 6, y |-> 6, width |-> 1, height |-> 1],
    [typeof |-> "object", x |-> 3, y |-> 3, width |-> 1, height |-> 1],
    [typeof |-> "object", x |-> 6, y |-> 1, width |-> 1, height |-> 2],
    [typeof |-> "object", x |-> 1, y |-> 6, width |-> 2, height |-> 1]>>

InitEdge ==
  /\ heap = (RootRef :> QuadTree([x |-> 1, y |-> 1, width |-> 4,
                                  height |-> 4, maxElements |-> 1]))
  /\ elts = EdgeElts
  /\ clone = Null
  /\ stored = [i \in Ids |-> 0]
  /\ last = Call("new", 0)
  /\ spent = 0
  /\ worklist = <<>>

NextEdge ==
  \/ \E item \in Ids : Push(item)
  \/ \E item \in Ids : Remove(item)
  \/ \E item \in Ids : Colliding(item)

SpecEdge == InitEdge /\ [][NextEdge]_vars

\* query rectangles about the right and the bottom edge of a node
Probes(node) ==
  {[typeof |-> "object", x |-> px, y |-> py, width |-> d[1], height |-> d[2]] :
     px \in {node.x + node.width - 1, node.x + node.width, node.x + node.width + 1},
     py \in {node.y, node.y + node.height - 1, node.y + node.height},
     d \in {<<2, 2>>, <<0, 1>>}}

NoneBeyondLeftOrTop(t) ==
  \A e \in Range(each(heap, t)) : elts[e].x >= heap[t].x /\ elts[e].y >= heap[t].y

\* the directions the claim names for an item that overlaps no quadrant
FallbackFor(item, node) ==
  LET right == item.x >= node.x + node.width
      bottom == item.y >= node.y + node.height
  IN IF right /\ bottom THEN {"SE"}
     ELSE IF right THEN {"NE", "SE"}
     ELSE IF bottom THEN {"SW", "SE"}
     ELSE {}

\* the probe is the object after the caller's objects
WithProbe(E, probe) == Append(E, probe)

\* C18: in every reachable tree none of whose stored elements extends
\* beyond the root's left or top edge, colliding(item) returns every stored
\* element that overlaps item, also for an item partly or wholly beyond the
\* right or bottom edge; at a node none of whose quadrants item overlaps,
\* the children visited are NE and SE when only item.x >= x + width, SW and
\* SE when only item.y >= y + height, SE alone when both, none otherwise.
C18_FallbackReaches ==
  \A t \in Trees :
    /\ NoneBeyondLeftOrTop(t) =>
         /\ \A item \in Valid(elts) :
              BagOf(colliding(heap, t, item, elts).items)
                = [i \in Ids |->
                     IF /\ i # item /\ i \in Range(each(heap, t))
                        /\ boundingBoxCollision(elts[item], elts[i])
                     THEN CountIn(each(heap, t), i) ELSE 0]
         /\ \A probe \in Probes(heap[t]) :
              BagOf(colliding(heap, t, Len(elts) + 1, WithProbe(elts, probe)).items)
                = [i \in Ids |->
                     IF /\ i \in Range(each(heap, t))
                        /\ boundingBoxCollision(probe, elts[i])
                     THEN CountIn(each(heap, t), i) ELSE 0]
    /\ \A r \in Reach(heap, t) :
         \A item \in {elts[i] : i \in Valid(elts)} \cup Probes(heap[t]) :
           fitting(item, heap[r]) = <<>> =>
             Range(collidingFits(item, heap[r])) = FallbackFor(item, heap[r])

\* colliding has returned an element stored below the root for an item that
\* lies wholly beyond the root's right and bottom edges
C18_Witness ==
  /\ last.op = "colliding"
  /\ NoneBeyondLeftOrTop(RootRef)
  /\ \E e \in Range(last.out) :
       /\ e \notin Range(heap[RootRef].oversized)
       /\ \E item \in Valid(elts) :
            /\ item # e
            /\ elts[item].x >= heap[RootRef].x + heap[RootRef].width
            /\ elts[item].y >= heap[RootRef].y + heap[RootRef].height
            /\ boundingBoxCollision(elts[item], elts[e])
            /\ last.out = colliding(heap, RootRef, item, elts).items

\* ------------------------------------------------------ the loops, by step
\* pushAll, find, colliding and where, one iteration of their while loop per
\* step.  worklist is the fifo of the call in progress; last.out lists the
\* nodes the call has taken from it.  A call starts when none is in
\* progress; a loop that has an iteration to run runs it.

Entry(t) == [tree |-> t, elements |-> <<>>]

Entries(ts) == [i \in 1..Len(ts) |-> Entry(ts[i])]

InitLoop ==
  /\ \E s \in Scenarios :
       /\ heap = (RootRef :> QuadTree(s.opts))
       /\ elts = s.elts
  /\ clone = Null
  /\ stored = [i \in Ids |-> 0]
  /\ last = Call("new", 0)
  /\ spent = 0
  /\ worklist = <<>>

\* lines 157-165: a batch that passed validation enters the fifo
StartPushAll(items) ==
  /\ worklist = <<>>
  /\ SizeOf(RootRef) + Len(items) <= MaxSize
  /\ validateAll(items, elts) = "ok"
  /\ worklist' = <<[tree |-> RootRef, elements |-> items]>>
  /\ last' = Call("pushAll", SizeOf(RootRef))
  /\ UNCHANGED <<heap, clone, elts, stored, spent>>

\* lines 167-217: one iteration
PushAllStep ==
  /\ last.op = "pushAll" /\ worklist # <<>>
  /\ LET top == Head(worklist)
         st == pushElements([h |-> heap, cand |-> NoCandidates],
                            top.tree, top.elements, elts)
     IN /\ heap' = st.h
        /\ worklist' = Tail(worklist) \o candidatesOf(st.cand)
        /\ last' = [last EXCEPT !.out = Append(@, top.tree)]
  /\ UNCHANGED <<clone, elts, stored, spent>>

\* line 485
StartFind ==
  /\ worklist = <<>>
  /\ worklist' = <<Entry(RootRef)>>
  /\ last' = Call("find", SizeOf(RootRef))
  /\ UNCHANGED <<heap, clone, elts, stored, spent>>

\* lines 487-505: one iteration
FindStep ==
  /\ last.op = "find" /\ worklist # <<>>
  /\ LET top == Head(worklist).tree IN
       /\ worklist' = Tail(worklist) \o Entries(liveChildren(heap[top], Dirs))
       /\ last' = [last EXCEPT !.out = Append(@, top)]
  /\ UNCHANGED <<heap, clone, elts, stored, spent>>

\* lines 273-278
StartColliding(item) ==
  /\ worklist = <<>>
  /\ validateElement(elts[item]) = "ok"
  /\ worklist' = <<Entry(RootRef)>>
  /\ last' = [Call("colliding", SizeOf(RootRef)) EXCEPT !.item = item]
  /\ UNCHANGED <<heap, clone, elts, stored, spent>>

\* lines 280-320: one iteration
CollidingStep ==
  /\ last.op = "colliding" /\ worklist # <<>>
  /\ LET top == Head(worklist).tree IN
       /\ worklist' = Tail(worklist)
             \o Entries(liveChildren(heap[top],
                                     collidingFits(elts[last.item], heap[top])))
       /\ last' = [last EXCEPT !.out = Append(@, top)]
  /\ UNCHANGED <<heap, clone, elts, stored, spent>>

\* lines 410-413, with the object itself for query
StartWhere(item) ==
  /\ worklist = <<>>
  /\ validateElement(elts[item]) = "ok"
  /\ worklist' = <<Entry(RootRef)>>
  /\ last' = [Call("where", SizeOf(RootRef)) EXCEPT !.item = item]
  /\ UNCHANGED <<heap, clone, elts, stored, spent>>

\* lines 415-446: one iteration
WhereStep ==
  /\ last.op = "where" /\ worklist # <<>>
  /\ LET top == Head(worklist).tree
         relatedChild ==
           heap[top].children[calculateDirection(elts[last.item], heap[top])]
     IN /\ worklist' = Tail(worklist)
              \o (IF relatedChild # Null THEN <<Entry(relatedChild)>> ELSE <<>>)
        /\ last' = [last EXCEPT !.out = Append(@, top)]
  /\ UNCHANGED <<heap, clone, elts, stored, spent>>

NextLoop ==
  \/ \E items \in UNION {SeqsOf(Ids, n) : n \in 1..MaxBatch} : StartPushAll(items)
  \/ PushAllStep
  \/ StartFind
  \/ FindStep
  \/ \E item \in Ids : StartColliding(item)
  \/ CollidingStep
  \/ \E item \in Ids : StartWhere(item)
  \/ WhereStep

\* PushAllStep has no guard but this one, and every step lengthens last.out
PushAllEnabled == last.op = "pushAll" /\ worklist # <<>>

\* WF_vars(PushAllStep), with ENABLED <<PushAllStep>>_vars written out as
\* PushAllEnabled
PushAllFair == []<>(~PushAllEnabled) \/ []<><<PushAllStep>>_vars

\* the while loops are sequential code: an iteration that can run does run
SpecLoop ==
  /\ InitLoop /\ [][NextLoop]_vars
  /\ PushAllFair
  /\ WF_vars(FindStep) /\ WF_vars(CollidingStep) /\ WF_vars(WhereStep)

\* the halvings that lead from a w x h node to a node of width or height 1
RECURSIVE Halvings(_, _)
Halvings(w, h) ==
  IF w <= 1 \/ h <= 1 THEN 0 ELSE 1 + Halvings(CeilHalf(w), CeilHalf(h))

\* the nodes the call in progress has taken from or still has in its fifo
Enqueued == last.out \o [i \in 1..Len(worklist) |-> worklist[i].tree]

\* every child is smaller than its parent, no node is enqueued twice, and
\* no enqueued node lies deeper than the halvings of the root allow
LoopMeasure ==
  /\ \A r \in DOMAIN heap : \A d \in DirSet :
       LET c == heap[r].children[d] IN
         c # Null => /\ heap[c].width < heap[r].width
                     /\ heap[c].height < heap[r].height
  /\ \A i \in 1..Len(Enqueued) : \A j \in 1..Len(Enqueued) :
       Enqueued[i] = Enqueued[j] => i = j
  /\ \A i \in 1..Len(Enqueued) :
       Len(Enqueued[i]) - 1 <= Halvings(heap[RootRef].width, heap[RootRef].height)

\* C17: every operation terminates: the worklist of pushAll, for any batch
\* of valid elements and any reachable tree, also with more than maxElements
\* identical elements, and the node queue of every query, empties; each
\* child is smaller than its parent, descent stops at a node of width or
\* height 1, and a query enqueues a live node at most once.
C17_Terminates == []LoopMeasure /\ []<>(worklist = <<>>)

\* a pushAll call has ended after taking three nodes from its fifo, leaving
\* more than maxElements copies of one element in a node of width 1
C17_Witness ==
  /\ last.op = "pushAll" /\ worklist = <<>> /\ Len(last.out) >= 3
  /\ \E r \in DOMAIN heap :
       /\ UnitNode(heap[r])
       /\ Len(heap[r].oversized) > heap[r].maxElements
       /\ Cardinality(Range(heap[r].oversized)) = 1

\* --------------------------------------------------- objects that look alike
\* A 4x4 tree with maxElements 1 and three pairs of distinct objects with
\* equal properties; push and remove are called.

TwinElts ==
  <<[typeof |-> "object", x |-> 0, y |-> 0, width |-> 1, height |-> 1],
    [typeof |-> "object", x |-> 0, y |-> 0, width |-> 1, height |-> 1],
    [typeof |-> "object", x |-> 1, y |-> 1, width |-> 2, height |-> 2],
    [typeof |-> "object", x |-> 1, y |-> 1, width |-> 2, height |-> 2],
    [typeof |-> "object", x |-> 3, y |-> 3, width |-> 1, height |-> 1],
    [typeof |-> "object", x |-> 3, y |-> 3, width |-> 1, height |-> 1],
    [typeof |-> "object", x |-> 0, y |-> 0, width |-> -1, height |-> 1]>>

InitTwin ==
  /\ heap = (RootRef :> QuadTree([x |-> 0, y |-> 0, width |-> 4,
                                  height |-> 4, maxElements |-> 1]))
  /\ elts = TwinElts
  /\ clone = Null
  /\ stored = [i \in Ids |-> 0]
  /\ last = Call("new", 0)
  /\ spent = 0
  /\ worklist = <<>>

NextTwin ==
  \/ \E item \in Ids : Push(item)
  \/ \E item \in Ids : Remove(item)

SpecTwin == InitTwin /\ [][NextTwin]_vars

\* C21: remove(x) for a valid object x that is not stored, also one whose
\* x, y, width and height equal those of a stored element, returns false
\* and leaves the tree as it was: no size, contents, oversized or child
\* slot of any node changes.
C21_RemoveOfAbsentIsNoOp ==
  \A t \in Trees : \A item \in Valid(elts) :
    item \notin Range(each(heap, t)) =>
      remove(heap, t, item, elts) = [h |-> heap, removed |-> FALSE, error |-> "none"]

\* a remove call has returned false without an error while every object
\* that is not stored has the properties of a stored one, and elements are
\* stored in oversized, in contents and two levels below the root
C21_Witness ==
  /\ last.op = "remove" /\ ~last.returned /\ last.error = "none"
  /\ \A j \in Valid(elts) :
       stored[j] = 0 => \E i \in Valid(elts) : stored[i] > 0 /\ elts[i] = elts[j]
  /\ heap[RootRef].oversized # <<>>
  /\ \E r \in DOMAIN heap : Len(r) >= 2 /\ heap[r].size >= 1

\* ------------------------------------------------- colliding and onCollision
\* The two trees of Scenarios under push, remove, colliding and onCollision
\* with the default and with caller-supplied collision functions.

\* the collision functions callers pass: none, one that always holds, one
\* that never does, one that compares the origins' x
CollisionFunctions(E) ==
  { NoPredicate,
    [typeof |-> "function", holds |-> Ids \X Ids],
    [typeof |-> "function", holds |-> {}],
    [typeof |-> "function",
     holds |-> {p \in Valid(E) \X Valid(E) : E[p[1]].x <= E[p[2]].x}] }

CollidingWith(item, collisionFunction) ==
  /\ LET r == collidingWith(heap, RootRef, item, collisionFunction, elts) IN
       last' = [Call("colliding", SizeOf(RootRef))
                  EXCEPT !.predicate = collisionFunction,
                         !.error = r.error, !.out = r.items]
  /\ UNCHANGED <<worklist, heap, clone, elts, stored, spent>>

OnCollision(item, collisionFunction) ==
  /\ LET r == onCollision(heap, RootRef, item, collisionFunction, elts) IN
       last' = [Call("onCollision", SizeOf(RootRef))
                  EXCEPT !.predicate = collisionFunction,
                         !.error = r.error, !.out = r.calls]
  /\ UNCHANGED <<worklist, heap, clone, elts, stored, spent>>

NextCollide ==
  \/ \E item \in Ids : Push(item)
  \/ \E item \in Ids : Remove(item)
  \/ \E item \in Ids, f \in CollisionFunctions(elts) : CollidingWith(item, f)
  \/ \E item \in Ids, f \in CollisionFunctions(elts) : OnCollision(item, f)

SpecCollide == Init /\ [][NextCollide]_vars

\* C22: for every reachable tree, item and collision function,
\* onCollision(item, callback, f) calls callback on exactly the sequence of
\* elements colliding(item, f) returns, in that order, once per match and
\* to the end; both throw the same error on an invalid item.
C22_OnCollisionIsColliding ==
  \A t \in Trees : \A item \in Ids : \A f \in CollisionFunctions(elts) :
    LET c == collidingWith(heap, t, item, f, elts)
        o == onCollision(heap, t, item, f, elts)
    IN /\ o.calls = c.items
       /\ o.error = c.error
       /\ f = NoPredicate => c = colliding(heap, t, item, elts)

\* onCollision has called back on three elements, one of them stored below
\* the root, with a collision function the caller passed
C22_Witness ==
  /\ last.op = "onCollision"
  /\ last.predicate.typeof = "function"
  /\ Len(last.out) >= 3
  /\ \E i \in 1..Len(last.out) :
       last.out[i] \notin Range(heap[RootRef].oversized)
                            \cup Range(heap[RootRef].contents)

\* ------------------------------------------------- pushAll and repeated push
\* The tree of InitTwin under push, pushAll and remove.

NextBatch ==
  \/ \E item \in Ids : Push(item)
  \/ \E items \in Batches : PushAll(items)
  \/ \E item \in Ids : Remove(item)

SpecBatch == InitTwin /\ [][NextBatch]_vars

\* push(e1); ...; push(en): one call of push per item, in order
RECURSIVE pushEach(_, _, _, _)
pushEach(h, t, items, E) ==
  IF items = <<>> THEN h
  ELSE pushEach(push(h, t, Head(items), E).h, t, Tail(items), E)

\* the batches of one to MaxBatch valid elements, and those of MaxBatch + 1
\* valid elements that name no object twice
ValidBatches ==
  UNION {SeqsOf(Valid(elts), n) : n \in 1..MaxBatch}
    \cup {s \in SeqsOf(Valid(elts), MaxBatch + 1) :
            \A i, j \in DOMAIN s : s[i] = s[j] => i = j}

\* C23: from every reachable tree, pushAll of a batch of valid elements
\* leaves the same nodes, each with the same size, contents, oversized and
\* children, as one push per element in the order of the batch.
C23_PushAllIsRepeatedPush ==
  \A items \in ValidBatches :
    LET r == pushAll(heap, RootRef, items, elts) IN
      /\ r.error = "none"
      /\ r.h = pushEach(heap, RootRef, items, elts)

\* pushAll has added a batch of two to a tree that held an element, and a
\* child of the root has split in turn
C23_Witness ==
  /\ last.op = "pushAll"
  /\ last.error = "none"
  /\ last.before >= 1
  /\ heap[RootRef].size = last.before + 2
  /\ \E r \in DOMAIN heap : Len(r) >= 3 /\ heap[r].size >= 1

\* ----------------------------------------------------------------- queries
\* The tree of InitEdge under push, remove and every query.

Visit ==
  /\ last' = [Call("visit", SizeOf(RootRef)) EXCEPT !.out = visit(heap, RootRef)]
  /\ UNCHANGED <<worklist, heap, clone, elts, stored, spent>>

NextQuery ==
  \/ \E item \in Ids : Push(item)
  \/ \E item \in Ids : Remove(item)
  \/ \E item \in Ids : Colliding(item)
  \/ \E item \in Ids : OnCollision(item, NoPredicate)
  \/ \E query \in Queries(elts) : Where(query)
  \/ \E predicate \in Predicates(elts) : Find(predicate)
  \/ Each
  \/ Visit

SpecQuery == InitEdge /\ [][NextQuery]_vars

\* unit squares outside a node, to its left, right, top and bottom
Outside(node) ==
  {[typeof |-> "object", x |-> px, y |-> py, width |-> 1, height |-> 1] :
     px \in {node.x - 2, node.x, node.x + node.width + 1},
     py \in {node.y - 2, node.y, node.y + node.height + 1}}
    \ {[typeof |-> "object", x |-> node.x, y |-> node.y,
        width |-> 1, height |-> 1]}

\* items that overlap a quadrant of the node that has no child
OverEmptySlot(t) ==
  {i \in Valid(elts) :
     \E d \in Range(collidingFits(elts[i], heap[t])) :
       heap[t].children[d] = Null}

\* C24: colliding, onCollision, where, get, find, each and visit leave the
\* heap as it was: every node keeps its size, contents, oversized and child
\* slots and no uncreated slot is materialised, also for items that overlap
\* quadrants without a child or lie outside the root.
C24_QueriesAreReadOnly ==
  \A t \in Trees :
    /\ \A item \in {elts[i] : i \in Ids} \cup Probes(heap[t])
                     \cup Outside(heap[t]) :
         /\ collidingAfter(heap, t, item) = heap
         /\ onCollisionAfter(heap, t, item) = heap
         /\ whereAfter(heap, t, item) = heap
    /\ \A query \in Queries(elts) :
         /\ whereAfter(heap, t, query) = heap
         /\ getAfter(heap, t, query) = heap
    /\ findAfter(heap, t) = heap
    /\ eachAfter(heap, t) = heap
    /\ visitAfter(heap, t) = heap

\* colliding has returned elements for an item that overlaps a quadrant of
\* the root that has no child, the root having a child elsewhere
C24_Witness ==
  /\ last.op = "colliding"
  /\ last.out # <<>>
  /\ \E d \in DirSet : heap[RootRef].children[d] # Null
  /\ \E i \in OverEmptySlot(RootRef) :
       last.out = colliding(heap, RootRef, i, elts).items

\* ------------------------------------------------- order of each and visit
\* the depth of node r below the node t a traversal starts at
DepthBelow(t, r) == Len(r) - Len(t)

\* the elements of the given nodes, node by node, oversized before contents
RECURSIVE ElementsOf(_, _)
ElementsOf(h, nodes) ==
  IF nodes = <<>> THEN <<>>
  ELSE h[Head(nodes)].oversized \o h[Head(nodes)].contents
         \o ElementsOf(h, Tail(nodes))

\* a sequence that names each member of S once and nothing else
OnceEach(s, S) ==
  /\ Range(s) = S
  /\ \A i, j \in DOMAIN s : s[i] = s[j] => i = j

\* the nodes come by depth, and among the children of one depth those of
\* an earlier parent first, those of one parent in key order
BreadthFirst(t, nodes) ==
  LET parent(r) == SubSeq(r, 1, Len(r) - 1)
      pos(r) == CHOOSE i \in DOMAIN nodes : nodes[i] = r
      key(r) == CHOOSE k \in DOMAIN Dirs : Dirs[k] = r[Len(r)]
  IN /\ nodes # <<>> /\ nodes[1] = t
     /\ \A i, j \in DOMAIN nodes :
          i < j =>
            /\ DepthBelow(t, nodes[i]) <= DepthBelow(t, nodes[j])
            /\ DepthBelow(t, nodes[i]) = DepthBelow(t, nodes[j])
                 /\ DepthBelow(t, nodes[i]) > 0 =>
                 \/ pos(parent(nodes[i])) < pos(parent(nodes[j]))
                 \/ /\ parent(nodes[i]) = parent(nodes[j])
                    /\ key(nodes[i]) < key(nodes[j])

\* C25: visit(action) calls action once per live node, breadth first (by
\* depth, children in key order); each(action) calls action on the elements
\* of those nodes in that node order, within a node oversized before
\* contents, so once per stored element and never on an element of a node
\* at depth d + 1 before one of a node at depth d.
C25_EachIsBreadthFirst ==
  /\ \A t \in Trees :
       /\ OnceEach(visit(heap, t), Reach(heap, t))
       /\ BreadthFirst(t, visit(heap, t))
       /\ each(heap, t) = ElementsOf(heap, visit(heap, t))
  /\ BagOf(each(heap, RootRef)) = stored

\* each has run on a tree in which a grandchild of the root holds elements
\* and a later child of the root, which a depth-first walk would reach
\* after that grandchild, holds one too
C25_Witness ==
  /\ last.op = "each"
  /\ last.out = each(heap, RootRef)
  /\ \E a, b \in Reach(heap, RootRef) :
       /\ DepthBelow(RootRef, a) = 1 /\ DepthBelow(RootRef, b) = 2
       /\ heap[a].size > 0 /\ heap[b].size > 0
       /\ \E k, l \in DOMAIN Dirs : k < l /\ b[Len(RootRef) + 1] = Dirs[k]
                                          /\ a[Len(a)] = Dirs[l]

====
